---- MODULE Spec2Model ----
\* PII masking engine of the Email-Classification service (src/utils.py):
\* pattern detector, named-entity adapter, overlap resolver and masker.
\* Strings are sequences of one-character strings; offsets are Python
\* offsets (0-based, half-open).
EXTENDS Integers, Sequences, FiniteSets, TLC

VARIABLES
    text,               \* the argument of mask_text
    pc,                 \* position of the invocation
    pidx,               \* detect_regex_entities: index of the pattern being scanned
    scanpos,            \* detect_regex_entities: where re.finditer resumes
    nmatch,             \* detect_regex_entities: matches yielded so far
    entities,           \* the `entities` list of the function currently running
    order,              \* _resolve_overlaps: the sorted candidates the fold iterates
    k,                  \* _resolve_overlaps: index in order of the next candidate
    resolved_entities,  \* _resolve_overlaps: the accumulator
    entity_info,        \* mask_text: the descriptor list
    new_text_parts,     \* mask_text: the pieces of the masked text
    current_pos,        \* mask_text: the cursor
    m,                  \* mask_text: index of the next entity of the walk
    result,             \* what mask_text returned
    self_patterns,      \* PIIMasker.patterns of the shared masker
    calls,              \* the mask_text invocations running on the shared masker
    db,                 \* the rows of the emails table, in insertion order
    api,                \* the HTTP request being handled and its response
    match,              \* the re.Match handed to a verifier
    verdict             \* what the verifier returned

\* the state outside one mask_text call
ext == <<self_patterns, calls, db, api, match, verdict>>

vars == <<text, pc, pidx, scanpos, nmatch, entities, order, k,
          resolved_entities, entity_info, new_text_parts, current_pos, m, result,
          self_patterns, calls, db, api, match, verdict>>

\* ---------------------------------------------------------------- bounds
MaxLen == 3         \* longest text
MaxMatches == 2     \* regex matches yielded during one detect_regex_entities
MaxEnts == 1        \* spans in doc.ents
MaxCands == 3       \* candidates handed to _resolve_overlaps on its own
MaxEnd == 4         \* largest end offset of such a candidate

Alphabet == {"a", "b"}

Max(a, b) == IF a >= b THEN a ELSE b
Min(a, b) == IF a <= b THEN a ELSE b

\* ---------------------------------------------------------------- strings
\* Python's s[a:b]: negative indices count from the end, then both are
\* clamped to 0..len(s); an empty range gives "".
PyIndex(i, n) == IF i < 0 THEN Max(i + n, 0) ELSE Min(i, n)

PySlice(s, a, b) ==
    LET lo == PyIndex(a, Len(s))
        hi == PyIndex(b, Len(s))
    IN  IF lo >= hi THEN << >> ELSE SubSeq(s, lo + 1, hi)

\* s[a:]
PySliceFrom(s, a) == PySlice(s, a, Len(s))

\* "".join(parts)
RECURSIVE Join(_)
Join(parts) ==
    IF parts = << >> THEN << >> ELSE Head(parts) \o Join(Tail(parts))

\* the characters of the entity type names
Chars(t) ==
    CASE t = "email" -> <<"e", "m", "a", "i", "l">>
      [] t = "phone_number" ->
            <<"p", "h", "o", "n", "e", "_", "n", "u", "m", "b", "e", "r">>
      [] t = "credit_debit_no" ->
            <<"c", "r", "e", "d", "i", "t", "_", "d", "e", "b", "i", "t", "_", "n", "o">>
      [] t = "cvv_no" -> <<"c", "v", "v", "_", "n", "o">>
      [] t = "expiry_no" -> <<"e", "x", "p", "i", "r", "y", "_", "n", "o">>
      [] t = "aadhar_num" -> <<"a", "a", "d", "h", "a", "r", "_", "n", "u", "m">>
      [] t = "dob" -> <<"d", "o", "b">>
      [] t = "full_name" -> <<"f", "u", "l", "l", "_", "n", "a", "m", "e">>

\* str.upper on one character
UpperChar(c) ==
    CASE c = "a" -> "A" [] c = "b" -> "B" [] c = "c" -> "C" [] c = "d" -> "D"
      [] c = "e" -> "E" [] c = "f" -> "F" [] c = "h" -> "H" [] c = "i" -> "I"
      [] c = "l" -> "L" [] c = "m" -> "M" [] c = "n" -> "N" [] c = "o" -> "O"
      [] c = "p" -> "P" [] c = "r" -> "R" [] c = "t" -> "T" [] c = "u" -> "U"
      [] c = "v" -> "V" [] c = "x" -> "X" [] c = "y" -> "Y"
      [] OTHER -> c

Upper(s) == [i \in 1..Len(s) |-> UpperChar(s[i])]

\* ---------------------------------------------------------------- Entity
Entity(start, end, entity_type, value) ==
    [start |-> start, end |-> end, entity_type |-> entity_type, value |-> value]

to_dict(e) ==
    [position |-> <<e.start, e.end>>, classification |-> e.entity_type,
     entity |-> e.value]

\* ---------------------------------------------------------------- patterns
\* the keys of self.patterns, in insertion order
patterns ==
    <<"email", "phone_number", "credit_debit_no", "cvv_no", "expiry_no",
      "aadhar_num", "dob">>

\* the entity types detect_regex_entities runs a verifier for
Verified == {"credit_debit_no", "cvv_no", "phone_number", "dob"}

\* the substring check with strict comparisons of the offsets
is_strictly_inside_existing(ents, start, end, value) ==
    \E i \in 1..Len(ents) :
        /\ ents[i].start < start
        /\ ents[i].end > end
        /\ ents[i].value # value

\* the substring check of detect_regex_entities
is_substring_of_existing(ents, start, end, value) ==
    \E i \in 1..Len(ents) :
        /\ ents[i].start <= start
        /\ ents[i].end >= end
        /\ ents[i].value # value

\* ---------------------------------------------------------------- sorting
Length(e) == e.end - e.start

\* key=lambda e: (e.start, -(e.end - e.start)), compared as Python tuples
KeyLE(a, b) ==
    \/ a.start < b.start
    \/ a.start = b.start /\ (0 - Length(a)) <= (0 - Length(b))

\* key=lambda x: x.start
StartLE(a, b) == a.start <= b.start

\* insertion of e behind every element that does not sort after it
RECURSIVE InsertBy(_, _, _)
InsertBy(s, e, byLen) ==
    IF s = << >> THEN <<e>>
    ELSE IF (IF byLen THEN KeyLE(Head(s), e) ELSE StartLE(Head(s), e))
         THEN <<Head(s)>> \o InsertBy(Tail(s), e, byLen)
         ELSE <<e>> \o s

\* Python's stable sort
RECURSIVE StableSort(_, _)
StableSort(s, byLen) ==
    IF s = << >> THEN << >>
    ELSE InsertBy(StableSort(SubSeq(s, 1, Len(s) - 1), byLen), s[Len(s)], byLen)

SortByStart(s) == StableSort(s, FALSE)

\* the list left in the order it has
InArrivalOrder(s) == s

SortByStartLen(s) == StableSort(s, TRUE)

\* ---------------------------------------------------------------- resolver
\* the overlap length taken one too short
overlapOffByOne(current_entity, res_entity) ==
    Max(0, Min(current_entity.end, res_entity.end)
           - Max(current_entity.start, res_entity.start) - 1)

overlap(current_entity, res_entity) ==
    Max(0, Min(current_entity.end, res_entity.end)
           - Max(current_entity.start, res_entity.start))

\* a fully contains b
Contains(a, b) == a.start <= b.start /\ a.end >= b.end

\* The first precedence test of the scan: the candidate is a name, the
\* accepted entity is not and does not fully contain it.
NameEvicts(current_entity, res_entity) ==
    /\ current_entity.entity_type = "full_name"
    /\ res_entity.entity_type # "full_name"
    /\ ~Contains(res_entity, current_entity)

\* The second precedence test (the elif): the accepted entity is a name,
\* the candidate is not and does not fully contain it.
NameDominates(current_entity, res_entity) ==
    /\ ~(current_entity.entity_type = "full_name"
         /\ res_entity.entity_type # "full_name")
    /\ res_entity.entity_type = "full_name"
    /\ current_entity.entity_type # "full_name"
    /\ ~Contains(current_entity, res_entity)

\* Decide without the second precedence test: an accepted name is treated
\* like any other accepted entity.
DecideByLengthOnly(current_entity, res_entity) ==
    IF NameEvicts(current_entity, res_entity) THEN "skip"
    ELSE IF Length(current_entity) > Length(res_entity) THEN "skip"
    ELSE "keep"

\* What the scan does with an accepted entity the candidate overlaps:
\* "skip" leaves it out of temp_resolved and goes on with the scan,
\* "keep" appends it to temp_resolved and breaks out of the scan.
Decide(current_entity, res_entity) ==
    IF NameEvicts(current_entity, res_entity) THEN "skip"
    ELSE IF NameDominates(current_entity, res_entity) THEN "keep"
    ELSE IF Length(current_entity) > Length(res_entity) THEN "skip"
    ELSE "keep"

\* The inner loop over resolved_entities from index i on, with the
\* temp_resolved list and the is_overlapped_or_contained flag so far.
\* The break ends the scan: the accepted entities behind i are not copied.
RECURSIVE Scan(_, _, _, _, _)
Scan(current_entity, resolved, i, temp_resolved, flag) ==
    IF i > Len(resolved)
    THEN [temp_resolved |-> temp_resolved, is_overlapped_or_contained |-> flag]
    ELSE IF overlap(current_entity, resolved[i]) > 0
    THEN IF Decide(current_entity, resolved[i]) = "skip"
         THEN Scan(current_entity, resolved, i + 1, temp_resolved, TRUE)
         ELSE [temp_resolved |-> Append(temp_resolved, resolved[i]),
               is_overlapped_or_contained |-> TRUE]
    ELSE Scan(current_entity, resolved, i + 1,
              Append(temp_resolved, resolved[i]), flag)

\* AddCurrent with the flag ignored: the candidate is always appended.
AddCurrentAlways(scanned, current_entity) ==
    Append(scanned.temp_resolved, current_entity)

\* `if not is_overlapped_or_contained: temp_resolved.append(current_entity)`
AddCurrent(scanned, current_entity) ==
    IF ~scanned.is_overlapped_or_contained
    THEN Append(scanned.temp_resolved, current_entity)
    ELSE scanned.temp_resolved

\* One iteration of the outer loop: the new resolved_entities.
FoldStep(current_entity, resolved) ==
    SortByStartLen(
        AddCurrent(Scan(current_entity, resolved, 1, << >>, FALSE), current_entity))

\* The final pass: entity i is dropped when another entity of the list
\* contains it and is strictly longer.
is_contained(resolved, i) ==
    \E j \in 1..Len(resolved) :
        /\ i # j
        /\ resolved[j].start <= resolved[i].start
        /\ resolved[j].end >= resolved[i].end
        /\ Length(resolved[j]) > Length(resolved[i])

RECURSIVE FinalFrom(_, _)
FinalFrom(resolved, i) ==
    IF i > Len(resolved) THEN << >>
    ELSE (IF is_contained(resolved, i) THEN << >> ELSE <<resolved[i]>>)
         \o FinalFrom(resolved, i + 1)

FinalPass(resolved) == FinalFrom(resolved, 1)

\* The accumulator after the first n candidates of a sorted candidate list.
RECURSIVE FoldPrefix(_, _)
FoldPrefix(cands, n) ==
    IF n = 0 THEN << >> ELSE FoldStep(cands[n], FoldPrefix(cands, n - 1))

\* _resolve_overlaps as a function
resolve_overlaps(ents) ==
    IF ents = << >> THEN << >>
    ELSE FinalPass(FoldPrefix(SortByStartLen(ents), Len(ents)))

\* ---------------------------------------------------------------- masker
mask(e) == <<"[">> \o Upper(Chars(e.entity_type)) \o <<"]">>

\* the walk order reversed, as for a replacement from the end of the text
RECURSIVE Reverse(_)
Reverse(q) == IF q = << >> THEN << >> ELSE Append(Reverse(Tail(q)), Head(q))

MaskOrderReversed(ents) == Reverse(SortByStartLen(ents))

\* entities.sort(key=lambda x: (x.start, -(x.end - x.start)))
MaskOrder(ents) == SortByStartLen(ents)

\* ---------------------------------------------------------------- inputs
Texts == UNION {[1..n -> Alphabet] : n \in 0..MaxLen}

\* What the recognizer can hand back in doc.ents: the adapter reads
\* start_char, end_char, label_ and text of each span and checks only the
\* label, so the offsets range over more than the offsets of the text.
Labels == {"PER", "PERSON", "ORG"}

Spans(t) ==
    {[start_char |-> a, end_char |-> b, label_ |-> l, text |-> PySlice(t, a, b)] :
        a \in -1..(Len(t) + 1), b \in -1..(Len(t) + 1), l \in Labels}

DocEnts(t) == UNION {[1..n -> Spans(t)] : n \in 0..MaxEnts}

\* the candidate lists _resolve_overlaps is applied to on its own
ResolveTypes == {"full_name", "email"}

Candidates(t) ==
    {Entity(a, b, ty, PySlice(t, a, b)) :
        a \in 0..(Len(t) - 1), b \in 1..Len(t), ty \in ResolveTypes}

WellFormedCandidates(t) == {e \in Candidates(t) : e.start < e.end}

NoResult == [returned |-> FALSE]

\* ---------------------------------------------------------------- actions
\* detect_regex_entities, one match of re.finditer for the current pattern:
\* the span lies behind the previous match of the same pattern and is not
\* empty; `verified` is the verdict of the pattern's verifier.
RegexMatch ==
    /\ pc = "regex"
    /\ nmatch < MaxMatches
    /\ \E start \in scanpos..(Len(text) - 1) :
       \E end \in (start + 1)..Len(text) :
       \E verified \in (IF patterns[pidx] \in Verified THEN BOOLEAN ELSE {TRUE}) :
          LET value == PySlice(text, start, end)
          IN  /\ entities' =
                    IF verified /\ ~is_substring_of_existing(entities, start, end, value)
                    THEN Append(entities, Entity(start, end, patterns[pidx], value))
                    ELSE entities
              /\ scanpos' = end
    /\ nmatch' = nmatch + 1
    /\ UNCHANGED <<text, pc, pidx, order, k, resolved_entities, entity_info,
                   new_text_parts, current_pos, m, result>>
    /\ UNCHANGED ext

\* detect_regex_entities: re.finditer is exhausted, on to the next pattern
NextPattern ==
    /\ pc = "regex"
    /\ pidx < Len(patterns)
    /\ pidx' = pidx + 1
    /\ scanpos' = 0
    /\ UNCHANGED <<text, pc, nmatch, entities, order, k, resolved_entities,
                   entity_info, new_text_parts, current_pos, m, result>>
    /\ UNCHANGED ext

\* detect_regex_entities returns
RegexDone ==
    /\ pc = "regex"
    /\ pidx = Len(patterns)
    /\ pc' = "names"
    /\ UNCHANGED <<text, pidx, scanpos, nmatch, entities, order, k,
                   resolved_entities, entity_info, new_text_parts, current_pos,
                   m, result>>
    /\ UNCHANGED ext

\* detect_name_entities: self.nlp(text) raises; nothing between the call
\* and the caller of mask_text catches it.
NlpRaise ==
    /\ pc = "names"
    /\ pc' = "raised"
    /\ UNCHANGED <<text, pidx, scanpos, nmatch, entities, order, k,
                   resolved_entities, entity_info, new_text_parts, current_pos,
                   m, result>>
    /\ UNCHANGED ext

\* the loop of detect_name_entities over doc.ents
RECURSIVE name_entities(_)
name_entities(ents) ==
    IF ents = << >> THEN << >>
    ELSE (IF Head(ents).label_ \in {"PER", "PERSON"}
          THEN <<Entity(Head(ents).start_char, Head(ents).end_char, "full_name",
                        Head(ents).text)>>
          ELSE << >>)
         \o name_entities(Tail(ents))

\* detect_name_entities returns; detect_all_entities extends the regex
\* entities by the names and sorts by start.
DetectNames ==
    /\ pc = "names"
    /\ \E ents \in DocEnts(text) :
          entities' = SortByStart(entities \o name_entities(ents))
    /\ pc' = "resolve"
    /\ UNCHANGED <<text, pidx, scanpos, nmatch, order, k, resolved_entities,
                   entity_info, new_text_parts, current_pos, m, result>>
    /\ UNCHANGED ext

\* _resolve_overlaps: the early return for no entities, else the sorted
\* iteration order and the empty accumulator
ResolveBegin ==
    /\ pc = "resolve"
    /\ IF entities = << >>
       THEN /\ pc' = "mask"
            /\ UNCHANGED <<order, k, resolved_entities>>
       ELSE /\ pc' = "fold"
            /\ order' = SortByStartLen(entities)
            /\ k' = 1
            /\ resolved_entities' = << >>
    /\ UNCHANGED <<text, pidx, scanpos, nmatch, entities, entity_info,
                   new_text_parts, current_pos, m, result>>
    /\ UNCHANGED ext

\* _resolve_overlaps: one iteration of the outer loop
Fold ==
    /\ pc = "fold"
    /\ k <= Len(order)
    /\ resolved_entities' = FoldStep(order[k], resolved_entities)
    /\ k' = k + 1
    /\ UNCHANGED <<text, pc, pidx, scanpos, nmatch, entities, order, entity_info,
                   new_text_parts, current_pos, m, result>>
    /\ UNCHANGED ext

\* _resolve_overlaps: the final pass and the return to detect_all_entities
Prune ==
    /\ pc = "fold"
    /\ k > Len(order)
    /\ entities' = FinalPass(resolved_entities)
    /\ pc' = "mask"
    /\ UNCHANGED <<text, pidx, scanpos, nmatch, order, k, resolved_entities,
                   entity_info, new_text_parts, current_pos, m, result>>
    /\ UNCHANGED ext

\* mask_text: the descriptors, then the sort, then the start of the walk
MaskBegin ==
    /\ pc = "mask"
    /\ entity_info' = [i \in 1..Len(entities) |-> to_dict(entities[i])]
    /\ entities' = MaskOrder(entities)
    /\ new_text_parts' = << >>
    /\ current_pos' = 0
    /\ m' = 1
    /\ pc' = "walk"
    /\ UNCHANGED <<text, pidx, scanpos, nmatch, order, k, resolved_entities, result>>
    /\ UNCHANGED ext

\* the parts one entity of the walk appends
WalkParts(t, pos, entity) ==
    (IF entity.start > pos THEN <<PySlice(t, pos, entity.start)>> ELSE << >>)
    \o <<mask(entity)>>

\* mask_text: one iteration of the walk
MaskStep ==
    /\ pc = "walk"
    /\ m <= Len(entities)
    /\ new_text_parts' = new_text_parts \o WalkParts(text, current_pos, entities[m])
    /\ current_pos' = entities[m].end
    /\ m' = m + 1
    /\ UNCHANGED <<text, pc, pidx, scanpos, nmatch, entities, order, k,
                   resolved_entities, entity_info, result>>
    /\ UNCHANGED ext

\* the trailing text appended only once the cursor has moved
TrailingAfterEntity(t, pos) ==
    IF pos > 0 /\ pos < Len(t) THEN <<PySliceFrom(t, pos)>> ELSE << >>

\* the text behind the last entity
Trailing(t, pos) == IF pos < Len(t) THEN <<PySliceFrom(t, pos)>> ELSE << >>

\* mask_text: the trailing text, the join and the return
MaskFinish ==
    /\ pc = "walk"
    /\ m > Len(entities)
    /\ new_text_parts' = new_text_parts \o Trailing(text, current_pos)
    /\ result' = [returned |-> TRUE,
                  masked_text |-> Join(new_text_parts'),
                  entity_info |-> entity_info]
    /\ pc' = "done"
    /\ UNCHANGED <<text, pidx, scanpos, nmatch, entities, order, k,
                   resolved_entities, entity_info, current_pos, m>>
    /\ UNCHANGED ext

\* the service between two requests, nothing served yet
ApiIdle ==
    [pc |-> "idle", received |-> 0, served |-> << >>, seen |-> << >>,
     response |-> [endpoint |-> "none"]]

\* ---------------------------------------------------------------- specifications
\* nothing outside the call is in use
InitExt ==
    /\ self_patterns = patterns
    /\ calls = << >>
    /\ db = << >>
    /\ api = ApiIdle
    /\ match = [start |-> 0, end |-> 0]
    /\ verdict = NoResult

InitLocals ==
    /\ pidx = 1
    /\ scanpos = 0
    /\ nmatch = 0
    /\ order = << >>
    /\ k = 1
    /\ resolved_entities = << >>
    /\ entity_info = << >>
    /\ new_text_parts = << >>
    /\ current_pos = 0
    /\ m = 1
    /\ result = NoResult

\* mask_text(text) is called
Init ==
    /\ text \in Texts
    /\ pc = "regex"
    /\ entities = << >>
    /\ InitLocals
    /\ InitExt

Next ==
    \/ RegexMatch
    \/ NextPattern
    \/ RegexDone
    \/ NlpRaise
    \/ DetectNames
    \/ ResolveBegin
    \/ Fold
    \/ Prune
    \/ MaskBegin
    \/ MaskStep
    \/ MaskFinish

Spec == Init /\ [][Next]_vars

\* _resolve_overlaps(entities) is called on a list of well-formed candidates
InitResolve ==
    /\ text = [i \in 1..MaxEnd |-> "a"]
    /\ pc = "resolve"
    /\ entities \in UNION {[1..n -> WellFormedCandidates(text)] : n \in 0..MaxCands}
    /\ InitLocals
    /\ InitExt

NextResolve ==
    \/ ResolveBegin
    \/ Fold
    \/ Prune

SpecResolve == InitResolve /\ [][NextResolve]_vars

\* ---------------------------------------------------------------- properties
\* the overlap length of two spans
SpanOverlap(a, b) ==
    LET lo == IF a.start >= b.start THEN a.start ELSE b.start
        hi == IF a.end <= b.end THEN a.end ELSE b.end
    IN  IF hi - lo > 0 THEN hi - lo ELSE 0

Count(q, x) == Cardinality({i \in 1..Len(q) : q[i] = x})

IsPrefix(p, q) == Len(p) <= Len(q) /\ \A i \in 1..Len(p) : p[i] = q[i]

IsName(e) == e.entity_type = "full_name"

\* the accumulator does not gain a copy of the candidate
Dropped(cur, before, after) == Count(after, cur) <= Count(before, cur)

\* C1: the list _resolve_overlaps returns for well-formed candidates has no
\* two entities with a positive overlap, and no entity that lies inside a
\* strictly longer entity of the list.
C1_NonOverlap ==
    pc = "mask" =>
        \A i, j \in 1..Len(entities) :
            i # j =>
                /\ SpanOverlap(entities[i], entities[j]) = 0
                /\ ~(/\ entities[j].start <= entities[i].start
                     /\ entities[j].end >= entities[i].end
                     /\ entities[j].end - entities[j].start
                            > entities[i].end - entities[i].start)

\* C1 witness: the resolver returned two entities from candidates of which
\* two overlapped.
C1_Witness ==
    /\ pc = "mask"
    /\ Len(entities) >= 2
    /\ \E i, j \in 1..Len(order) : i # j /\ SpanOverlap(order[i], order[j]) > 0

\* the candidate is a name, the accepted entity is not and does not fully
\* contain the candidate
CandidateNameWins(cur, res) ==
    /\ IsName(cur)
    /\ ~IsName(res)
    /\ ~(res.start <= cur.start /\ res.end >= cur.end)

\* the accepted entity is a name, the candidate is not and does not fully
\* contain the accepted entity
AcceptedNameWins(cur, res) ==
    /\ IsName(res)
    /\ ~IsName(cur)
    /\ ~(cur.start <= res.start /\ cur.end >= res.end)

\* a step of the fold is taken
FoldTaken == pc = "fold" /\ k <= Len(order) /\ k' = k + 1

\* C3: in a fold step where the candidate overlaps an accepted entity and
\* neither name rule decides, the longer of the two is in the accumulator
\* after the step and the shorter is not; on equal lengths the accepted
\* entity stays and the candidate is dropped.
C3_LongerWins ==
    [][FoldTaken =>
        \A i \in 1..Len(resolved_entities) :
            LET cur == order[k]
                res == resolved_entities[i]
            IN  (/\ SpanOverlap(cur, res) > 0
                 /\ ~CandidateNameWins(cur, res)
                 /\ ~AcceptedNameWins(cur, res)) =>
                    IF cur.end - cur.start > res.end - res.start
                    THEN /\ Count(resolved_entities', cur) >= 1
                         /\ Count(resolved_entities', res) = 0
                    ELSE /\ Count(resolved_entities', res) >= 1
                         /\ Dropped(cur, resolved_entities, resolved_entities')]_vars

\* C4: in a fold step where the candidate is a name that overlaps an
\* accepted entity that is not a name and does not fully contain it, the
\* accepted entity is gone from the accumulator after the step and the
\* candidate is in it.
C4_NameEvicts ==
    [][FoldTaken =>
        \A i \in 1..Len(resolved_entities) :
            LET cur == order[k]
                res == resolved_entities[i]
            IN  (SpanOverlap(cur, res) > 0 /\ CandidateNameWins(cur, res)) =>
                    /\ Count(resolved_entities', res) = 0
                    /\ Count(resolved_entities', cur) >= 1]_vars

\* C5: in a fold step where the candidate is not a name and overlaps an
\* accepted name it does not fully contain, the candidate is dropped and
\* the accepted name is still in the accumulator after the step, whatever
\* the two lengths are.
C5_NameKept ==
    [][FoldTaken =>
        \A i \in 1..Len(resolved_entities) :
            LET cur == order[k]
                res == resolved_entities[i]
            IN  (SpanOverlap(cur, res) > 0 /\ AcceptedNameWins(cur, res)) =>
                    /\ Dropped(cur, resolved_entities, resolved_entities')
                    /\ Count(resolved_entities', res) >= 1]_vars

\* C5 witness: the fold has just processed a candidate that is longer than
\* the accepted name it overlapped, and the name is in the accumulator.
C5_Witness ==
    /\ pc = "fold"
    /\ k > 1
    /\ LET cur == order[k - 1]
           before == FoldPrefix(order, k - 2)
       IN  \E i \in 1..Len(before) :
              /\ SpanOverlap(cur, before[i]) > 0
              /\ AcceptedNameWins(cur, before[i])
              /\ cur.end - cur.start > before[i].end - before[i].start
              /\ Count(resolved_entities, before[i]) >= 1
              /\ Count(resolved_entities, cur) = 0

\* ---------------------------------------------------------------- masking
\* the characters of t at the offsets a .. b-1 that exist
Between(t, a, b) ==
    LET lo == IF a >= 0 THEN a ELSE 0
        hi == IF b <= Len(t) THEN b ELSE Len(t)
    IN  IF lo >= hi THEN << >> ELSE SubSeq(t, lo + 1, hi)

\* the cursor behind the first i entities of the walk
CursorAfter(ents, i) == IF i = 0 THEN 0 ELSE ents[i].end

\* gap_0 + token_1 + gap_1 + ... + token_i for the first i entities
RECURSIVE Pieces(_, _, _)
Pieces(t, ents, i) ==
    IF i = 0 THEN << >>
    ELSE Pieces(t, ents, i - 1)
         \o Between(t, CursorAfter(ents, i - 1), ents[i].start)
         \o <<"[">> \o Upper(Chars(ents[i].entity_type)) \o <<"]">>

\* how many of the masked spans hold offset p
TimesMasked(ents, p) ==
    Cardinality({i \in 1..Len(ents) : ents[i].start <= p /\ p < ents[i].end})

\* how many of the gaps hold offset p, the trailing gap included
TimesCopied(t, ents, p) ==
    Cardinality({i \in 1..Len(ents) : CursorAfter(ents, i - 1) <= p /\ p < ents[i].start})
    + (IF CursorAfter(ents, Len(ents)) <= p /\ p < Len(t) THEN 1 ELSE 0)

\* C2: the masked text mask_text returns is gap_0 + token_1 + gap_1 + ... +
\* token_n + trailing gap over the resolved spans, every offset of the text
\* is either in exactly one gap or in exactly one masked span, and the
\* cursor never moves backwards.
C2_Partition ==
    pc = "done" =>
        /\ result.masked_text =
               Pieces(text, entities, Len(entities))
               \o Between(text, CursorAfter(entities, Len(entities)), Len(text))
        /\ \A p \in 0..(Len(text) - 1) :
               TimesMasked(entities, p) + TimesCopied(text, entities, p) = 1
        /\ \A i \in 1..Len(entities) :
               CursorAfter(entities, i) >= CursorAfter(entities, i - 1)

\* C6: mask_text does not raise when the recognizer fails.
C6_NoRaise == pc # "raised"

\* 0 <= start < end <= len(text)
InText(e, t) == 0 <= e.start /\ e.start < e.end /\ e.end <= Len(t)

\* C7: every entity that reaches the overlap resolver and the masker has
\* 0 <= start < end <= len(text).
C7_SpansInText ==
    pc \in {"resolve", "fold", "mask", "walk", "done"} =>
        \A i \in 1..Len(entities) : InText(entities[i], text)

\* no entity of the list lies in the range of an entity in front of it
\* whose value differs
NoneInsideEarlier(ents) ==
    \A i, j \in 1..Len(ents) :
        i < j =>
            ~(/\ ents[i].start <= ents[j].start
              /\ ents[i].end >= ents[j].end
              /\ ents[i].value # ents[j].value)

\* C8: while detect_regex_entities runs and when it returns, no candidate
\* lies within the range of a candidate accepted before it unless both have
\* the same matched text, and no step removes or changes an accepted
\* candidate.
C8_Detector ==
    /\ [](pc \in {"regex", "names"} => NoneInsideEarlier(entities))
    /\ [][pc = "regex" => IsPrefix(entities, entities')]_vars

\* C8 witness: the detector returned a candidate and, behind it in the list,
\* a longer candidate that contains it.
C8_Witness ==
    /\ pc = "names"
    /\ \E i, j \in 1..Len(entities) :
          /\ i < j
          /\ entities[j].start <= entities[i].start
          /\ entities[j].end >= entities[i].end
          /\ entities[j].end - entities[j].start > entities[i].end - entities[i].start

\* the parts of the masked text that are mask tokens (no character of the
\* texts is "[")
MaskTokens(parts) == SelectSeq(parts, LAMBDA x : Len(x) > 0 /\ x[1] = "[")

\* C9: the descriptors mask_text returns are ordered by (start ascending,
\* length descending) and the i-th descriptor has the position, type and
\* value of the span the i-th mask token replaces.
C9_DescriptorOrder ==
    pc = "done" =>
        LET info == result.entity_info
            tokens == MaskTokens(new_text_parts)
        IN  /\ Len(info) = Len(entities)
            /\ Len(tokens) = Len(info)
            /\ \A i \in 1..Len(info) :
                  /\ info[i].position = <<entities[i].start, entities[i].end>>
                  /\ info[i].classification = entities[i].entity_type
                  /\ info[i].entity = entities[i].value
                  /\ tokens[i] = <<"[">> \o Upper(Chars(info[i].classification)) \o <<"]">>
            /\ \A i, j \in 1..Len(info) :
                  i < j =>
                      \/ info[i].position[1] < info[j].position[1]
                      \/ /\ info[i].position[1] = info[j].position[1]
                         /\ info[i].position[2] - info[i].position[1]
                                >= info[j].position[2] - info[j].position[1]

\* C9 witness: mask_text returned two descriptors or more.
C9_Witness == pc = "done" /\ Len(result.entity_info) >= 2

\* C10: when no entity is detected, mask_text returns the text itself and
\* an empty descriptor list.
C10_NothingDetected ==
    (pc = "done" /\ order = << >>) =>
        /\ result.returned
        /\ result.masked_text = text
        /\ result.entity_info = << >>

\* C10 witness: mask_text returned for a text of MaxLen characters in which
\* a regex match was found and rejected and no entity was detected.
C10_Witness ==
    /\ pc = "done"
    /\ order = << >>
    /\ Len(text) = MaxLen
    /\ nmatch > 0

\* the candidate of the step overlaps an entity of the accumulator
Conflict(cur, acc) == \E i \in 1..Len(acc) : SpanOverlap(cur, acc[i]) > 0

\* C18: during the fold the accumulator is pairwise non-overlapping and a
\* sub-multiset of the input candidates (same offsets, type and value); a
\* step appends the candidate only when it overlaps no accepted entity, and
\* a step with a conflict never makes the accumulator longer.
C18_FoldInvariant ==
    /\ [](pc = "fold" =>
            /\ \A i, j \in 1..Len(resolved_entities) :
                  i # j => SpanOverlap(resolved_entities[i], resolved_entities[j]) = 0
            /\ \A i \in 1..Len(resolved_entities) :
                  Count(resolved_entities, resolved_entities[i])
                      <= Count(order, resolved_entities[i]))
    /\ [][FoldTaken =>
            /\ Conflict(order[k], resolved_entities) =>
                  /\ Len(resolved_entities') <= Len(resolved_entities)
                  /\ Dropped(order[k], resolved_entities, resolved_entities')
            /\ ~Conflict(order[k], resolved_entities) =>
                  resolved_entities' = SortByStartLen(Append(resolved_entities, order[k]))]_vars

\* C18 witness: the fold has taken a step with a conflict and a later step
\* without one, and holds two entities.
C18_Witness ==
    /\ pc = "fold"
    /\ k > 3
    /\ Len(resolved_entities) >= 2
    /\ Conflict(order[k - 2], FoldPrefix(order, k - 3))
    /\ ~Conflict(order[k - 1], FoldPrefix(order, k - 2))

\* ---------------------------------------------------------------- verifiers
\* str.lower on one character
LowerChar(c) ==
    CASE c = "A" -> "a" [] c = "B" -> "b" [] c = "C" -> "c" [] c = "D" -> "d"
      [] c = "E" -> "e" [] c = "F" -> "f" [] c = "G" -> "g" [] c = "H" -> "h"
      [] c = "I" -> "i" [] c = "J" -> "j" [] c = "K" -> "k" [] c = "L" -> "l"
      [] c = "M" -> "m" [] c = "N" -> "n" [] c = "O" -> "o" [] c = "P" -> "p"
      [] c = "Q" -> "q" [] c = "R" -> "r" [] c = "S" -> "s" [] c = "T" -> "t"
      [] c = "U" -> "u" [] c = "V" -> "v" [] c = "W" -> "w" [] c = "X" -> "x"
      [] c = "Y" -> "y" [] c = "Z" -> "z"
      [] OTHER -> c

Lower(s) == [i \in 1..Len(s) |-> LowerChar(s[i])]

DigitChars == {"0", "1", "2", "3", "4", "5", "6", "7", "8", "9"}

LetterChars ==
    {"a", "b", "c", "d", "e", "f", "g", "h", "i", "j", "k", "l", "m", "n", "o",
     "p", "q", "r", "s", "t", "u", "v", "w", "x", "y", "z",
     "A", "B", "C", "D", "E", "F", "G", "H", "I", "J", "K", "L", "M", "N", "O",
     "P", "Q", "R", "S", "T", "U", "V", "W", "X", "Y", "Z"}

\* \s of the re module and the characters str.strip removes, among the
\* ASCII characters: the space, \t, \n, \r, \f, and, written as the
\* characters themselves, \v (0x0b) and the separators 0x1c, 0x1d, 0x1e, 0x1f
SpaceChars == {" ", "\t", "\n", "\r", "\f", "", "", "", "", ""}

\* \w of the re module
WordChars == DigitChars \cup LetterChars \cup {"_"}

\* str.isdigit: false for the empty string
isdigit(s) == Len(s) > 0 /\ \A i \in 1..Len(s) : s[i] \in DigitChars

DigitValue(c) ==
    CASE c = "0" -> 0 [] c = "1" -> 1 [] c = "2" -> 2 [] c = "3" -> 3
      [] c = "4" -> 4 [] c = "5" -> 5 [] c = "6" -> 6 [] c = "7" -> 7
      [] c = "8" -> 8 [] c = "9" -> 9

\* int(value) of a string of digits
RECURSIVE int(_)
int(s) ==
    IF s = << >> THEN 0
    ELSE 10 * int(SubSeq(s, 1, Len(s) - 1)) + DigitValue(s[Len(s)])

\* keyword in s
In(keyword, s) ==
    \E i \in 1..(Len(s) - Len(keyword) + 1) :
        SubSeq(s, i, i + Len(keyword) - 1) = keyword

\* str.strip
RECURSIVE lstrip(_)
lstrip(s) ==
    IF s # << >> /\ Head(s) \in SpaceChars THEN lstrip(Tail(s)) ELSE s

RECURSIVE rstrip(_)
rstrip(s) ==
    IF s # << >> /\ s[Len(s)] \in SpaceChars
    THEN rstrip(SubSeq(s, 1, Len(s) - 1)) ELSE s

strip(s) == rstrip(lstrip(s))

\* the size of the context a verifier reads on each side of the match
context_window == 50

context_before(t, start) == Lower(PySlice(t, Max(0, start - context_window), start))

context_after(t, end) == Lower(PySlice(t, end, Min(Len(t), end + context_window)))

\* any(keyword in context_before or keyword in context_after ...)
any_keyword(keywords, t, start, end) ==
    \E keyword \in keywords :
        In(keyword, context_before(t, start)) \/ In(keyword, context_after(t, end))

\* verify_cvv: the CVV keywords
cvv_keywords ==
    {<<"c", "v", "v">>,
     <<"c", "v", "c">>,
     <<"c", "s", "c">>,
     <<"s", "e", "c", "u", "r", "i", "t", "y", " ", "c", "o", "d", "e">>,
     <<"c", "a", "r", "d", " ", "v", "e", "r", "i", "f", "i", "c", "a", "t", "i", "o", "n">>,
     <<"v", "e", "r", "i", "f", "i", "c", "a", "t", "i", "o", "n", " ", "n", "o">>,
     <<"s", "e", "c", "u", "r", "i", "t", "y">>,
     <<"s", "e", "c", "u", "r", "i", "t", "y", " ", "n", "u", "m", "b", "e", "r">>,
     <<"c", "v", "2">>,
     <<"c", "a", "r", "d", " ", "c", "o", "d", "e">>,
     <<"s", "e", "c", "u", "r", "i", "t", "y", " ", "v", "a", "l", "u", "e">>}

\* verify_cvv: the keywords of the year test
year_keywords ==
    {<<"y", "e", "a", "r">>,
     <<"b", "o", "r", "n">>,
     <<"e", "s", "t", "a", "b", "l", "i", "s", "h", "e", "d">>,
     <<"s", "i", "n", "c", "e">>}

\* verify_cvv: the keywords of card_context
card_context_keywords ==
    {<<"c", "a", "r", "d">>,
     <<"c", "r", "e", "d", "i", "t">>,
     <<"v", "i", "s", "a">>,
     <<"m", "a", "s", "t", "e", "r", "c", "a", "r", "d">>,
     <<"a", "m", "e", "x">>,
     <<"d", "i", "s", "c", "o", "v", "e", "r">>}

\* verify_phone_number: the phone keywords
phone_keywords ==
    {<<"p", "h", "o", "n", "e">>,
     <<"c", "a", "l", "l">>,
     <<"t", "e", "l">>,
     <<"t", "e", "l", "e", "p", "h", "o", "n", "e">>,
     <<"c", "o", "n", "t", "a", "c", "t">>,
     <<"d", "i", "a", "l">>,
     <<"m", "o", "b", "i", "l", "e">>,
     <<"c", "e", "l", "l">>,
     <<"n", "u", "m", "b", "e", "r">>,
     <<"d", "i", "r", "e", "c", "t">>,
     <<"o", "f", "f", "i", "c", "e">>,
     <<"f", "a", "x">>,
     <<"r", "e", "a", "c", "h", " ", "m", "e", " ", "a", "t">>,
     <<"c", "a", "l", "l", " ", "m", "e">>,
     <<"c", "o", "n", "t", "a", "c", "t", " ", "m", "e">>,
     <<"l", "i", "n", "e">>,
     <<"e", "x", "t", "e", "n", "s", "i", "o", "n">>,
     <<"e", "x", "t">>,
     <<"p", "h", "o", "n", "e", " ", "n", "u", "m", "b", "e", "r">>}

\* re.search(r'\b(0[1-9]|1[0-2])[/\s-]$', s): the last three characters are
\* a month and a separator ($ also matches in front of a final newline), with
\* a word boundary in front of the month
month_at(s, i) ==
    \/ s[i] = "0" /\ s[i + 1] \in (DigitChars \ {"0"})
    \/ s[i] = "1" /\ s[i + 1] \in {"0", "1", "2"}

ends_in_expiry_at(s, n) ==
    /\ n >= 3
    /\ month_at(s, n - 2)
    /\ s[n] \in ({"/", "-"} \cup SpaceChars)
    /\ (n - 2 = 1 \/ s[n - 3] \notin WordChars)

ends_in_expiry(s) ==
    \/ ends_in_expiry_at(s, Len(s))
    \/ Len(s) >= 1 /\ s[Len(s)] = "\n" /\ ends_in_expiry_at(s, Len(s) - 1)

\* verify_cvv with the year test and the expiry test in front of the
\* CVV keyword test
verify_cvv_keyword_last(t, start, end) ==
    LET value == PySlice(t, start, end)
        char_before == IF start > 0 THEN PySlice(t, start - 1, start) ELSE << >>
        char_after == IF end < Len(t) THEN PySlice(t, end, end + 1) ELSE << >>
    IN  IF isdigit(char_before) \/ isdigit(char_after) THEN FALSE
        ELSE IF ~isdigit(value) \/ Len(value) < 3 \/ Len(value) > 4 THEN FALSE
        ELSE IF /\ Len(value) = 4
                /\ 1900 <= int(value)
                /\ int(value) <= 2100
                /\ any_keyword(year_keywords, t, start, end)
             THEN FALSE
        ELSE IF ends_in_expiry(strip(context_before(t, start))) THEN FALSE
        ELSE IF any_keyword(cvv_keywords, t, start, end) THEN TRUE
        ELSE any_keyword(card_context_keywords, t, start, end)
                 /\ Len(value) \in {3, 4}

\* PIIMasker.verify_cvv(text, match) for a match with span (start, end)
verify_cvv(t, start, end) ==
    LET value == PySlice(t, start, end)
        char_before == IF start > 0 THEN PySlice(t, start - 1, start) ELSE << >>
        char_after == IF end < Len(t) THEN PySlice(t, end, end + 1) ELSE << >>
        is_cvv_context == any_keyword(cvv_keywords, t, start, end)
        card_context == any_keyword(card_context_keywords, t, start, end)
    IN  IF isdigit(char_before) \/ isdigit(char_after) THEN FALSE
        ELSE IF ~isdigit(value) \/ Len(value) < 3 \/ Len(value) > 4 THEN FALSE
        ELSE IF is_cvv_context THEN TRUE
        ELSE IF /\ Len(value) = 4
                /\ 1900 <= int(value)
                /\ int(value) <= 2100
                /\ any_keyword(year_keywords, t, start, end)
             THEN FALSE
        ELSE IF ends_in_expiry(strip(context_before(t, start))) THEN FALSE
        ELSE is_cvv_context \/ (card_context /\ Len(value) \in {3, 4})

\* len(''.join(c for c in value if c.isdigit()))
digit_count(value) == Cardinality({i \in 1..Len(value) : value[i] \in DigitChars})

\* the formatting characters without the separators of the phone pattern
FormattingCharsNoSeparators == {"(", ")", "\\", "+"}

\* re.search(r'[-\s.()\\+]', value)
FormattingChars == {"-", ".", "(", ")", "\\", "+"} \cup SpaceChars

has_phone_formatting(value) == \E i \in 1..Len(value) : value[i] \in FormattingChars

\* value.startswith('+') or value.startswith('00')
has_intl_prefix(value) ==
    \/ Len(value) >= 1 /\ value[1] = "+"
    \/ Len(value) >= 2 /\ value[1] = "0" /\ value[2] = "0"

\* verify_phone_number without the test of the digit count
verify_phone_number_any_count(t, start, end) ==
    LET value == PySlice(t, start, end)
    IN  \/ any_keyword(phone_keywords, t, start, end)
        \/ has_phone_formatting(value) /\ digit_count(value) >= 7
        \/ has_intl_prefix(value)
        \/ digit_count(value) = 10 /\ has_phone_formatting(value)

\* PIIMasker.verify_phone_number(text, match) for a match with span (start, end)
verify_phone_number(t, start, end) ==
    LET value == PySlice(t, start, end)
    IN  IF digit_count(value) < 7 \/ digit_count(value) > 15 THEN FALSE
        ELSE \/ any_keyword(phone_keywords, t, start, end)
             \/ has_phone_formatting(value) /\ digit_count(value) >= 7
             \/ has_intl_prefix(value)
             \/ digit_count(value) = 10 /\ has_phone_formatting(value)


\* ----------------------------------------------------- the verifiers' inputs
Pad(n) == [i \in 1..n |-> "."]

\* what stands in front of a cvv_no match
CvvBefore ==
    {<< >>,
     <<"c", "v", "v", " ">>,
     <<"C", "V", "V", ":", " ">>,
     <<"s", "e", "c", "u", "r", "i", "t", "y", " ", "c", "o", "d", "e", " ">>,
     <<"y", "e", "a", "r", " ">>,
     <<"S", "i", "n", "c", "e", " ">>,
     <<"c", "a", "r", "d", " ">>,
     <<"V", "i", "s", "a", " ">>,
     <<"e", "x", "p", " ", "1", "2", "/">>,
     <<"1", "2", "/">>,
     <<"1", "2", "/", " ">>,
     <<"1", "2", "-">>,
     <<"1", "1", "2", "/">>,
     <<"1", "3", "/">>,
     <<"0", "0", "/">>,
     <<"a", "1", "2", "/">>,
     <<"c", "a", "r", "d", " ", "1", "2", "/">>,
     <<"c", "a", "r", "d", " ", "1", "2", "/", "\r", "\n">>,
     <<"c", "a", "r", "d", " ", "1", "2", "/", "\f", "">>,
     <<"c", "a", "r", "d", " ", "1", "2", "/", "", "", "", "">>,
     <<"c", "a", "r", "d", " ", "1", "2", "\r">>,
     <<"c", "v", "v", " ", "1", "2", "/">>,
     <<"c", "v", "v", " ", "y", "e", "a", "r", " ">>,
     <<"c", "a", "r", "d", " ", "y", "e", "a", "r", " ">>,
     <<"c", "v", "v", " ", "7">>,
     <<"c", "a", "r", "d", " ", "7">>,
     <<"c", "v", "v">> \o Pad(context_window - 3),
     <<"c", "v", "v">> \o Pad(context_window - 2),
     <<"c", "a", "r", "d">> \o Pad(context_window - 4),
     <<"c", "a", "r", "d">> \o Pad(context_window - 3)}

\* the text of a cvv_no match
CvvValues ==
    {<<"1", "2", "3">>,
     <<"9", "9", "9">>,
     <<"1", "9", "9", "9">>,
     <<"2", "0", "2", "4">>,
     <<"1", "9", "0", "0">>,
     <<"2", "1", "0", "0">>,
     <<"2", "1", "0", "1">>,
     <<"1", "8", "9", "9">>}

\* what follows a cvv_no match
CvvAfter ==
    {<< >>,
     <<" ", "c", "v", "v">>,
     <<" ", "y", "e", "a", "r">>,
     <<" ", "c", "a", "r", "d">>,
     <<"7">>,
     <<"7", " ", "c", "v", "v">>,
     <<" ", "1", "2", "/">>,
     Pad(context_window - 3) \o <<"c", "v", "c">>,
     Pad(context_window - 2) \o <<"c", "v", "c">>}

\* what stands in front of a phone_number match
PhoneBefore ==
    {<< >>,
     <<"t", "e", "l">>,
     <<"c", "a", "l", "l", " ">>,
     <<"T", "e", "l", ":", " ">>,
     <<"r", "e", "a", "c", "h", " ", "m", "e", " ", "a", "t", " ">>,
     <<"x", " ">>,
     <<"p", "h", "o", "n", "e">> \o Pad(context_window - 5),
     <<"p", "h", "o", "n", "e">> \o Pad(context_window - 4)}

\* what follows a phone_number match
PhoneAfter ==
    {<< >>,
     <<" ", "e", "x", "t">>,
     <<" ", "i", "s", " ", "m", "y", " ", "N", "u", "m", "b", "e", "r">>,
     Pad(context_window - 6) \o <<"m", "o", "b", "i", "l", "e">>,
     Pad(context_window - 5) \o <<"m", "o", "b", "i", "l", "e">>}

\* values verify_phone_number can be called on
PhoneValues ==
    {<<"5", "5", "5", "1", "2", "3", "4">>,
     <<"5", "5", "5", "-", "1", "2", "3", "4">>,
     <<"5", "5", "5", "1", "2", "3">>,
     <<"5", "5", "-", "1", "2", "-", "3", "4">>,
     <<"+", "1", "5", "5", "5", "1", "2", "3", "4">>,
     <<"0", "0", "5", "5", "5", "1", "2", "3", "4", "5">>,
     <<"+", "1", "-", "2", "3">>,
     <<"0", "0", "1", "2", "3">>,
     <<"1", "2", "3", "4", "5", "6", "7", "8", "9", "0", "1", "2", "3", "4", "5", "6">>,
     <<"1", "2", "3", "-", "4", "5", "6", "-", "7", "8", "9", "-", "0", "1", "2", "-", "3", "4", "5", "6">>,
     <<"+", "1", "2", "3", "4", "5", "6", "7", "8", "9", "0", "1", "2", "3", "4", "5", "6">>,
     <<"1", "2", "3", "4", "5", "6", "7", "8", "9", "0", "1", "2", "3", "4", "5">>,
     <<"4", "1", "5", "-", "5", "5", "5", "-", "0", "1", "3", "2">>,
     <<"(", "4", "1", "5", ")", " ", "5", "5", "5", "-", "0", "1", "3", "2">>,
     <<"4", "1", "5", "5", "5", "5", "0", "1", "3", "2">>,
     <<"5", "5", "5", "\\", "1", "2", "3", "4">>,
     <<"5", "5", "5", "\r", "1", "2", "3", "4">>,
     <<"5", "5", "5", "\f", "1", "2", "3", "4">>,
     <<"5", "5", "5", "", "1", "2", "3", "4">>,
     <<"5", "5", "5", "", "1", "2", "3", "4">>}

\* The phone_number pattern: an optional international prefix, an optional
\* area code, a group of digits, and one to four further groups each behind
\* a separator.  MaxGroups bounds the number of further groups.
MaxGroups == 2

PhonePrefixes == {<< >>, <<"+", "1", " ">>, <<"0", "0", "4", "4", "-">>}

PhoneAreas == {<< >>, <<"(", "4", "1", "5", ")", " ">>, <<"4", "1", "5", ".">>}

PhoneGroups == {<<"1", "2">>, <<"0", "1", "2", "3", "4">>}

PhoneSeparators == {"-", " ", ".", "\r"}

PhoneFurther == {<<s>> \o g : s \in PhoneSeparators, g \in PhoneGroups}

RECURSIVE PhoneTails(_)
PhoneTails(n) ==
    IF n = 1 THEN PhoneFurther
    ELSE PhoneTails(n - 1) \cup {r \o f : r \in PhoneTails(n - 1), f \in PhoneFurther}

PhonePatternValues ==
    {p \o a \o g \o r :
        p \in PhonePrefixes, a \in PhoneAreas, g \in PhoneGroups, r \in PhoneTails(MaxGroups)}

\* what stands in front of and behind a match of the pattern
PatternBefore == {<< >>, <<"t", "e", "l">>, <<"c", "a", "l", "l", " ">>, <<"x", " ">>}

PatternAfter == {<< >>, <<" ", "e", "x", "t">>}

\* ------------------------------------------------------ a verifier is called
Returned(v) == [returned |-> TRUE, value |-> v]

CallVerifier(before, value, after, verifier) ==
    /\ text = before \o value \o after
    /\ match = [start |-> Len(before), end |-> Len(before) + Len(value)]
    /\ pc = verifier

\* verify_cvv(text, match) or verify_phone_number(text, match) is called
InitVerify ==
    /\ \/ \E b \in CvvBefore, v \in CvvValues, a \in CvvAfter :
             CallVerifier(b, v, a, "verify_cvv")
       \/ \E b \in PhoneBefore, v \in PhoneValues, a \in PhoneAfter :
             CallVerifier(b, v, a, "verify_phone_number")
       \/ \E b \in PatternBefore, v \in PhonePatternValues, a \in PatternAfter :
             CallVerifier(b, v, a, "verify_phone_number")
    /\ entities = << >>
    /\ InitLocals
    /\ self_patterns = patterns
    /\ calls = << >>
    /\ db = << >>
    /\ api = ApiIdle
    /\ verdict = NoResult

VerifyCvv ==
    /\ pc = "verify_cvv"
    /\ verdict' = Returned(verify_cvv(text, match.start, match.end))
    /\ pc' = "cvv_verified"
    /\ UNCHANGED <<text, pidx, scanpos, nmatch, entities, order, k, resolved_entities,
                   entity_info, new_text_parts, current_pos, m, result>>
    /\ UNCHANGED <<self_patterns, calls, db, api, match>>

VerifyPhoneNumber ==
    /\ pc = "verify_phone_number"
    /\ verdict' = Returned(verify_phone_number(text, match.start, match.end))
    /\ pc' = "phone_verified"
    /\ UNCHANGED <<text, pidx, scanpos, nmatch, entities, order, k, resolved_entities,
                   entity_info, new_text_parts, current_pos, m, result>>
    /\ UNCHANGED <<self_patterns, calls, db, api, match>>

NextVerify ==
    \/ VerifyCvv
    \/ VerifyPhoneNumber

SpecVerify == InitVerify /\ [][NextVerify]_vars


\* ------------------------------------------------- properties of the verifiers
Value == PySlice(text, match.start, match.end)

\* a keyword stands, in any case, wholly inside the context_window characters
\* in front of the match or wholly inside those behind it
KeywordNear(keywords) ==
    \E keyword \in keywords : \E i \in 0..(Len(text) - Len(keyword)) :
        /\ Lower(SubSeq(text, i + 1, i + Len(keyword))) = keyword
        /\ \/ i >= match.start - context_window /\ i + Len(keyword) <= match.start
           \/ i >= match.end /\ i + Len(keyword) <= match.end + context_window

DigitAdjacent ==
    \/ match.start > 0 /\ text[match.start] \in DigitChars
    \/ match.end < Len(text) /\ text[match.end + 1] \in DigitChars

LooksLikeYear ==
    /\ Len(Value) = 4
    /\ int(Value) \in 1900..2100
    /\ KeywordNear(year_keywords)

ExpiryFragmentBefore == ends_in_expiry(strip(context_before(text, match.start)))

\* C16: verify_cvv rejects a match that has a digit next to it whatever the
\* context; otherwise a CVV keyword in the context accepts it whatever the
\* year test and the expiry test say; without a CVV keyword the year test
\* and the expiry test reject it, and what is left is accepted exactly when
\* a card keyword is in the context.
C16_CvvPrecedence ==
    pc = "cvv_verified" =>
        /\ DigitAdjacent => ~verdict.value
        /\ ~DigitAdjacent /\ KeywordNear(cvv_keywords) => verdict.value
        /\ /\ ~DigitAdjacent
           /\ ~KeywordNear(cvv_keywords)
           /\ LooksLikeYear \/ ExpiryFragmentBefore
           => ~verdict.value
        /\ /\ ~DigitAdjacent
           /\ ~KeywordNear(cvv_keywords)
           /\ ~LooksLikeYear
           /\ ~ExpiryFragmentBefore
           => (verdict.value <=> KeywordNear(card_context_keywords))

\* a year behind an expiry fragment, with a year keyword and a CVV keyword in
\* the context, has been accepted
C16_Witness ==
    /\ pc = "cvv_verified"
    /\ ~DigitAdjacent
    /\ KeywordNear(cvv_keywords)
    /\ LooksLikeYear
    /\ ExpiryFragmentBefore
    /\ verdict.value

\* C17: verify_phone_number rejects a match with fewer than 7 or more than
\* 15 digits whatever its context, punctuation and prefix; a match with 7 to
\* 15 digits is accepted exactly when a phone keyword is in the context, or
\* the match holds a formatting character, or it starts with + or 00.
C17_PhoneVerifier ==
    pc = "phone_verified" =>
        /\ digit_count(Value) \notin 7..15 => ~verdict.value
        /\ digit_count(Value) \in 7..15 =>
              (verdict.value <=>
                  \/ KeywordNear(phone_keywords)
                  \/ \E i \in 1..Len(Value) : Value[i] \in FormattingChars
                  \/ Value[1] = "+"
                  \/ SubSeq(Value, 1, 2) = <<"0", "0">>)

\* a match of 16 digits with a keyword, punctuation and a prefix was rejected
C17_Witness ==
    /\ pc = "phone_verified"
    /\ digit_count(Value) > 15
    /\ KeywordNear(phone_keywords)
    /\ has_phone_formatting(Value)
    /\ has_intl_prefix(Value)
    /\ ~verdict.value

\* \b of the re module at offset i of the text
WordBoundary(i) ==
    (i > 0 /\ text[i] \in WordChars) # (i < Len(text) /\ text[i + 1] \in WordChars)

\* the match is one the phone_number pattern finds in the text
IsPhonePatternMatch ==
    /\ Value \in PhonePatternValues
    /\ WordBoundary(match.start)
    /\ WordBoundary(match.end)

\* C20: a match of the phone_number pattern is accepted by
\* verify_phone_number if and only if it has 7 to 15 digits, whatever the
\* keywords in its context and whether or not it has an international prefix.
C20_PatternMatchAccepted ==
    pc = "phone_verified" /\ IsPhonePatternMatch =>
        (verdict.value <=> digit_count(Value) \in 7..15)

\* a pattern match of 7 to 15 digits with no keyword near it and no prefix
\* was accepted
C20_Witness ==
    /\ pc = "phone_verified"
    /\ IsPhonePatternMatch
    /\ digit_count(Value) \in 7..15
    /\ ~KeywordNear(phone_keywords)
    /\ ~has_intl_prefix(Value)
    /\ verdict.value


\* ------------------------------------------------ mask_text as one function
\* The pattern "email", \b[A-Za-z0-9._%+-]+@[A-Za-z0-9.-]+\.[A-Z|a-z]{2,}\b
LocalChars == LetterChars \cup DigitChars \cup {".", "_", "%", "+", "-"}

DomainChars == LetterChars \cup DigitChars \cup {".", "-"}

TldChars == LetterChars \cup {"|"}

\* \b at offset i of t
word_boundary(t, i) ==
    (i > 0 /\ t[i] \in WordChars) # (i < Len(t) /\ t[i + 1] \in WordChars)

\* t[a:b] is not empty and made of the characters of cs
run_of(t, a, b, cs) == a < b /\ \A i \in (a + 1)..b : t[i] \in cs

\* the pattern matches t[start:end] with the last dot at offset dot
email_match(t, start, dot, end) ==
    /\ dot < Len(t)
    /\ end <= Len(t)
    /\ word_boundary(t, start)
    /\ \E at \in (start + 1)..(dot - 2) :
          /\ run_of(t, start, at, LocalChars)
          /\ t[at + 1] = "@"
          /\ run_of(t, at + 1, dot, DomainChars)
    /\ t[dot + 1] = "."
    /\ end - (dot + 1) >= 2
    /\ run_of(t, dot + 1, end, TldChars)
    /\ word_boundary(t, end)

SetMin(S) == CHOOSE x \in S : \A y \in S : x <= y

SetMax(S) == CHOOSE x \in S : \A y \in S : x >= y

\* pattern.finditer(text) from offset pos: the leftmost start, the domain
\* and then the last part as long as they can be, and on from the end
RECURSIVE email_finditer(_, _)
email_finditer(t, pos) ==
    LET offsets == 0..Len(t)
        starts == {s \in offsets : s >= pos /\ \E d, e \in offsets : email_match(t, s, d, e)}
    IN  IF starts = {} THEN << >>
        ELSE LET start == SetMin(starts)
                 dot == SetMax({d \in offsets : \E e \in offsets : email_match(t, start, d, e)})
                 end == SetMax({e \in offsets : email_match(t, start, dot, e)})
             IN  <<[start |-> start, end |-> end]>> \o email_finditer(t, end)

\* the loop over the matches of one pattern: a match is appended unless it
\* is a substring of an entity found before
RECURSIVE add_matches(_, _, _, _)
add_matches(t, found, matches, entity_type) ==
    IF matches = << >> THEN found
    ELSE LET start == Head(matches).start
             end == Head(matches).end
             value == PySlice(t, start, end)
         IN  add_matches(t,
                 IF is_substring_of_existing(found, start, end, value) THEN found
                 ELSE Append(found, Entity(start, end, entity_type, value)),
                 Tail(matches), entity_type)

\* pattern.finditer(text) for the pattern of entity_type and a text without
\* a digit: every pattern but "email" needs a digit and finds nothing
finditer(entity_type, t) ==
    IF entity_type = "email" THEN email_finditer(t, 0) ELSE << >>

\* the loop of detect_regex_entities over the patterns pats
RECURSIVE detect_loop(_, _, _)
detect_loop(t, pats, found) ==
    IF pats = << >> THEN found
    ELSE detect_loop(t, Tail(pats),
                     add_matches(t, found, finditer(Head(pats), t), Head(pats)))

\* detect_regex_entities(text) for a text without a digit
detect_regex_entities(t) == detect_loop(t, patterns, << >>)

\* detect_all_entities(text) when the recognizer returns the spans ents
detect_all_entities(t, ents) ==
    resolve_overlaps(SortByStart(detect_regex_entities(t) \o name_entities(ents)))

\* the walk of mask_text from entity i on
RECURSIVE Walk(_, _, _, _, _)
Walk(t, ents, i, pos, parts) ==
    IF i > Len(ents) THEN Join(parts \o Trailing(t, pos))
    ELSE Walk(t, ents, i + 1, ents[i].end, parts \o WalkParts(t, pos, ents[i]))

\* mask_text(text) when the recognizer returns the spans ents
mask_text(t, ents) ==
    LET found == detect_all_entities(t, ents)
    IN  [masked_text |-> Walk(t, MaskOrder(found), 1, 0, << >>),
         entity_info |-> [i \in 1..Len(found) |-> to_dict(found[i])]]


\* ------------------------------------------------------- the service and its store
\* the number of /classify requests
MaxRequests == 2

\* the email bodies the requests carry
Bodies ==
    {<<"j", "@", "x", ".", "i", "o">>,
     <<"m", "@", "x", ".", "i", "o">>,
     <<"h", "i", " ", "B", "o", "b">>,
     <<"[", "E", "M", "A", "I", "L", "]">>}

\* the spans the recognizer holds for names
Names == {<<"B", "o", "b">>}

\* what the recognizer returns for a body: nothing, or one span of a name
NameDocs(t) ==
    {<< >>} \cup
    {<<[start_char |-> p[1], end_char |-> p[2], label_ |-> "PER",
        text |-> PySlice(t, p[1], p[2])]>> :
        p \in {q \in (0..Len(t)) \X (0..Len(t)) : PySlice(t, q[1], q[2]) \in Names}}

\* EmailClassifier.CATEGORIES
CATEGORIES == {"Change", "Incident", "Problem", "Request"}

\* None of Python, NULL of the store
None == "None"

\* os.environ.get("EMAIL_ACCESS_KEY", "default_secure_access_key")
access_key == "default_secure_access_key"

\* the keys a caller sends
Keys == {access_key, "wrong_key"}

\* a masked text no request has produced
UnknownMasked == <<"n", "o", " ", "s", "u", "c", "h", " ", "t", "e", "x", "t">>

\* the result of a query without a row
NoRow == [found |-> FALSE]

Row(r) ==
    [found |-> TRUE, id |-> r.id, original_email |-> r.original_email,
     masked_email |-> r.masked_email, masked_entities |-> r.masked_entities,
     category |-> r.category]

\* the category store_email is given by a caller that knows it
category_known == "Incident"

\* the category of store_email when the caller passes none
category_default == None

\* sqlite3.OperationalError (the file is locked, the table is missing): an
\* exception that is not an HTTPException
OperationalError == [http |-> FALSE]

\* a call that ends in an exception instead of a value
Raise(e) == [found |-> FALSE, exception |-> e]

raised(r) == "exception" \in DOMAIN r

\* EmailDatabase.store_email: the rows after the INSERT and the id returned;
\* _generate_id gives an id no row has.  When sqlite cannot write, the except
\* clause rolls back and raises again: the rows are as they were.
store_email(rows, original_email, masked_email, masked_entities, category, writable) ==
    IF ~writable THEN [rows |-> rows, exception |-> OperationalError]
    ELSE [rows |-> Append(rows, [id |-> Len(rows) + 1, original_email |-> original_email,
                                 masked_email |-> masked_email,
                                 masked_entities |-> masked_entities,
                                 category |-> category]),
          email_id |-> Len(rows) + 1]

\* cursor.fetchone() of a SELECT without ORDER BY, where hits are the
\* positions of the rows that satisfy the WHERE clause: the first of them
\* in the order of insertion
fetchone(rows, hits) == IF hits = {} THEN NoRow ELSE Row(rows[SetMin(hits)])

\* get_original_email without the test of the key
get_original_email_unchecked(rows, email_id, key, readable) ==
    IF ~readable THEN Raise(OperationalError)
    ELSE fetchone(rows, {i \in 1..Len(rows) : rows[i].id = email_id})

\* EmailDatabase.get_original_email(email_id, access_key): the key is tested
\* before the connection is opened; the try has a finally and no except, so
\* an exception of sqlite goes to the caller
get_original_email(rows, email_id, key, readable) ==
    IF key # access_key THEN NoRow
    ELSE IF ~readable THEN Raise(OperationalError)
    ELSE fetchone(rows, {i \in 1..Len(rows) : rows[i].id = email_id})

\* EmailDatabase.get_email_by_masked_content(masked_email)
get_email_by_masked_content(rows, masked_email, readable) ==
    IF ~readable THEN Raise(OperationalError)
    ELSE fetchone(rows, {i \in 1..Len(rows) : rows[i].masked_email = masked_email})

\* unmask_email: the except clause re-raises an HTTPException and turns
\* every other exception into a 500
unmask_except(e) == IF e.http THEN e.status_code ELSE 500

\* classify_email: the except clause turns every exception into a 500
classify_except(e) == 500

HTTPException(status_code) == [http |-> TRUE, status_code |-> status_code]

\* the handler of /api/v1/unmask-email
unmask_email(rows, masked_email, key, readable) ==
    IF key # access_key
    THEN [status |-> unmask_except(HTTPException(401)), db_read |-> FALSE, data |-> NoRow]
    ELSE LET email_data == get_email_by_masked_content(rows, masked_email, readable)
         IN  IF raised(email_data)
             THEN [status |-> unmask_except(email_data.exception), db_read |-> TRUE,
                   data |-> NoRow]
             ELSE IF ~email_data.found
             THEN [status |-> unmask_except(HTTPException(404)), db_read |-> TRUE,
                   data |-> NoRow]
             ELSE [status |-> 200, db_read |-> TRUE, data |-> email_data]

\* the text the classifier would get from the field of the original
classifier_input_original(masked_email_data) == masked_email_data.input_email_body

\* EmailClassifier.process_email: the text given to classify
classifier_input(masked_email_data) == masked_email_data.masked_email

\* classify_email is entered with a body
ClassifyRequest ==
    /\ api.pc = "idle"
    /\ api.received < MaxRequests
    /\ \E body \in Bodies :
          api' = [pc |-> "mask_text", received |-> api.received + 1,
                  served |-> api.served, seen |-> api.seen,
                  response |-> [endpoint |-> "none"], body |-> body]
    /\ UNCHANGED <<text, pc, pidx, scanpos, nmatch, entities, order, k, resolved_entities,
                   entity_info, new_text_parts, current_pos, m, result>>
    /\ UNCHANGED <<self_patterns, calls, db, match, verdict>>

\* process_email: the recognizer raises inside mask_text, classify_email
\* answers 500 and nothing is stored
MaskRaise ==
    /\ api.pc = "mask_text"
    /\ api' = [pc |-> "idle", received |-> api.received, served |-> api.served,
               seen |-> api.seen,
               response |-> [endpoint |-> "classify",
                             status |-> classify_except([http |-> FALSE])]]
    /\ UNCHANGED <<text, pc, pidx, scanpos, nmatch, entities, order, k, resolved_entities,
                   entity_info, new_text_parts, current_pos, m, result>>
    /\ UNCHANGED <<self_patterns, calls, db, match, verdict>>

\* process_email: mask_text returns
MaskEmail ==
    /\ api.pc = "mask_text"
    /\ \E ents \in NameDocs(api.body) :
          api' = [pc |-> "store_email", received |-> api.received, served |-> api.served,
                  seen |-> api.seen, response |-> api.response, body |-> api.body,
                  masked |-> mask_text(api.body, ents)]
    /\ UNCHANGED <<text, pc, pidx, scanpos, nmatch, entities, order, k, resolved_entities,
                   entity_info, new_text_parts, current_pos, m, result>>
    /\ UNCHANGED <<self_patterns, calls, db, match, verdict>>

\* process_email: store_email is called.  Either the record is stored and
\* the processed data returned, or store_email raises, process_email passes
\* the exception on and classify_email answers 500 with the table as it was.
\* writable: whether sqlite can execute and commit the INSERT.
StoreEmail ==
    /\ api.pc = "store_email"
    /\ \E writable \in BOOLEAN :
          LET stored == store_email(db, api.body, api.masked.masked_text,
                                    api.masked.entity_info, category_default, writable)
          IN  /\ db' = stored.rows
              /\ api' =
                    IF raised(stored)
                    THEN [pc |-> "idle", received |-> api.received, served |-> api.served,
                          seen |-> api.seen,
                          response |-> [endpoint |-> "classify",
                                        status |-> classify_except(stored.exception)]]
                    ELSE [pc |-> "classify", received |-> api.received,
                          served |-> api.served, seen |-> api.seen,
                          response |-> api.response, body |-> api.body,
                          masked |-> api.masked,
                          processed_data |->
                              [input_email_body |-> api.body,
                               list_of_masked_entities |-> api.masked.entity_info,
                               masked_email |-> api.masked.masked_text,
                               category_of_the_email |-> << >>,
                               email_id |-> stored.email_id]]
    /\ UNCHANGED <<text, pc, pidx, scanpos, nmatch, entities, order, k, resolved_entities,
                   entity_info, new_text_parts, current_pos, m, result>>
    /\ UNCHANGED <<self_patterns, calls, match, verdict>>

\* email_classifier.process_email: classify raises, classify_email answers 500
ClassifyRaise ==
    /\ api.pc = "classify"
    /\ api' = [pc |-> "idle", received |-> api.received, served |-> api.served,
               seen |-> Append(api.seen, classifier_input(api.processed_data)),
               response |-> [endpoint |-> "classify",
                             status |-> classify_except([http |-> FALSE])]]
    /\ UNCHANGED <<text, pc, pidx, scanpos, nmatch, entities, order, k, resolved_entities,
                   entity_info, new_text_parts, current_pos, m, result>>
    /\ UNCHANGED <<self_patterns, calls, db, match, verdict>>

\* email_classifier.process_email returns and classify_email answers
Classify ==
    /\ api.pc = "classify"
    /\ \E category \in CATEGORIES :
          LET data == [input_email_body |-> api.body,
                       list_of_masked_entities |->
                           api.processed_data.list_of_masked_entities,
                       masked_email |-> api.processed_data.masked_email,
                       category_of_the_email |-> category]
          IN  api' = [pc |-> "idle", received |-> api.received,
                      served |-> Append(api.served, data),
                      seen |-> Append(api.seen, classifier_input(api.processed_data)),
                      response |-> [endpoint |-> "classify", status |-> 200, data |-> data]]
    /\ UNCHANGED <<text, pc, pidx, scanpos, nmatch, entities, order, k, resolved_entities,
                   entity_info, new_text_parts, current_pos, m, result>>
    /\ UNCHANGED <<self_patterns, calls, db, match, verdict>>

\* the masked texts a caller of unmask sends
MaskedSent == {api.served[i].masked_email : i \in 1..Len(api.served)} \cup {UnknownMasked}

\* a request to /api/v1/unmask-email is handled.  readable: whether sqlite
\* can execute the SELECT.
Unmask ==
    /\ api.pc = "idle"
    /\ \E masked_email \in MaskedSent, key \in Keys, readable \in BOOLEAN :
          api' = [api EXCEPT !.response =
                      [endpoint |-> "unmask-email", masked_email |-> masked_email,
                       key |-> key, readable |-> readable,
                       answer |-> unmask_email(db, masked_email, key, readable)]]
    /\ UNCHANGED <<text, pc, pidx, scanpos, nmatch, entities, order, k, resolved_entities,
                   entity_info, new_text_parts, current_pos, m, result>>
    /\ UNCHANGED <<self_patterns, calls, db, match, verdict>>

\* PIIMasker.get_original_email(email_id, access_key) is called.  readable:
\* whether sqlite can execute the SELECT.
GetOriginalEmail ==
    /\ api.pc = "idle"
    /\ \E email_id \in 1..(MaxRequests + 1), key \in Keys, readable \in BOOLEAN :
          api' = [api EXCEPT !.response =
                      [endpoint |-> "get_original_email", email_id |-> email_id,
                       key |-> key, readable |-> readable,
                       answer |-> get_original_email(db, email_id, key, readable)]]
    /\ UNCHANGED <<text, pc, pidx, scanpos, nmatch, entities, order, k, resolved_entities,
                   entity_info, new_text_parts, current_pos, m, result>>
    /\ UNCHANGED <<self_patterns, calls, db, match, verdict>>

\* the service has started: the table is empty
InitApi ==
    /\ text = << >>
    /\ pc = "api"
    /\ entities = << >>
    /\ InitLocals
    /\ InitExt

NextApi ==
    \/ ClassifyRequest
    \/ MaskRaise
    \/ MaskEmail
    \/ StoreEmail
    \/ ClassifyRaise
    \/ Classify
    \/ Unmask
    \/ GetOriginalEmail

SpecApi == InitApi /\ [][NextApi]_vars


\* ------------------------------------------------- properties of the service
ClassifierInvoked == api'.seen # api.seen

\* C13: in every handling of /classify the classifier is invoked only once
\* mask_text has returned for that request, and the text it is given is the
\* masked text mask_text returned for that request.
C13_ClassifierGetsMasked ==
    [][ClassifierInvoked =>
          /\ api.pc = "classify"
          /\ api'.seen = Append(api.seen, api.masked.masked_text)]_vars

\* a request whose body holds an address was classified on its masked text
C13_Witness ==
    /\ api.pc = "idle"
    /\ api.response.endpoint = "classify"
    /\ api.response.status = 200
    /\ api.response.data.masked_email # api.response.data.input_email_body
    /\ api.seen[Len(api.seen)] = api.response.data.masked_email

KnownId(email_id) == \E i \in 1..Len(db) : db[i].id = email_id

KnownMasked(masked_email) == \E i \in 1..Len(db) : db[i].masked_email = masked_email

\* the key that does not match gives None, respectively 401 without a read
\* of the table, whether or not the id or the masked text is known
WrongKeyRefused ==
    /\ api.response.endpoint = "get_original_email" /\ api.response.key # access_key =>
          api.response.answer = NoRow
    /\ api.response.endpoint = "unmask-email" /\ api.response.key # access_key =>
          /\ api.response.answer.status = 401
          /\ ~api.response.answer.db_read
          /\ api.response.answer.data = NoRow

\* C14 as stated: get_original_email returns None for every key other than
\* the configured one, whether or not the id exists; /api/v1/unmask-email
\* answers 401 without a read of the table for such a key; with the
\* configured key an unknown id gives None and an unknown masked text 404,
\* never a 500.
C14_UnknownNever500 ==
    /\ WrongKeyRefused
    /\ api.response.endpoint = "get_original_email" =>
          (api.response.key = access_key /\ ~KnownId(api.response.email_id) =>
              api.response.answer = NoRow)
    /\ api.response.endpoint = "unmask-email" =>
          (api.response.key = access_key /\ ~KnownMasked(api.response.masked_email) =>
              api.response.answer.status = 404)

\* C14 as amended: a key other than the configured one gives None,
\* respectively 401 without a read of the table, whether or not the id or
\* the masked text is known; with the configured key an unknown id gives
\* None and an unknown masked text 404 when sqlite can read the table, and
\* when it cannot, get_original_email raises and the endpoint answers 500,
\* for known and unknown alike.
C14_KeyRequired ==
    /\ WrongKeyRefused
    /\ api.response.endpoint = "get_original_email" /\ api.response.key = access_key =>
          /\ api.response.readable /\ ~KnownId(api.response.email_id) =>
                api.response.answer = NoRow
          /\ ~api.response.readable => raised(api.response.answer)
    /\ api.response.endpoint = "unmask-email" /\ api.response.key = access_key =>
          /\ api.response.readable /\ ~KnownMasked(api.response.masked_email) =>
                api.response.answer.status = 404
          /\ ~api.response.readable =>
                /\ api.response.answer.status = 500
                /\ api.response.answer.data = NoRow

\* with a record in the table, an unknown masked text sent with the
\* configured key was answered 404
C14_Witness ==
    /\ api.response.endpoint = "unmask-email"
    /\ api.response.key = access_key
    /\ api.response.readable
    /\ Len(db) >= 1
    /\ ~KnownMasked(api.response.masked_email)
    /\ api.response.answer.status = 404

\* C15: unmask with the configured key and the masked_email of the response
\* of an earlier /classify request returns the input_email_body of that
\* request, whenever sqlite can read the table.
C15_UnmaskRoundTrip ==
    /\ api.response.endpoint = "unmask-email"
    /\ api.response.key = access_key
    /\ api.response.readable
    => \A i \in 1..Len(api.served) :
            api.served[i].masked_email = api.response.masked_email =>
                /\ api.response.answer.status = 200
                /\ api.response.answer.data.original_email = api.served[i].input_email_body

\* C19: when the classifier is invoked the record of the request is in the
\* table with the original text and category NULL; no row is ever changed
\* or removed; a 500 after the store leaves the record in the table; and
\* the category answered is not the category stored.
C19_StoredBeforeClassified ==
    /\ [][ClassifierInvoked =>
             /\ Len(db) >= 1
             /\ db[Len(db)].id = api.processed_data.email_id
             /\ db[Len(db)].original_email = api.body
             /\ db[Len(db)].category = None
             /\ db' = db]_vars
    /\ [][Len(db') >= Len(db) /\ \A i \in 1..Len(db) : db'[i] = db[i]]_vars
    /\ [](api.response.endpoint = "classify" /\ api.response.status = 200 =>
             db[Len(db)].category # api.response.data.category_of_the_email)

\* the classifier raised on the first request: 500, and the record is kept
C19_Witness ==
    /\ api.pc = "idle"
    /\ api.response.endpoint = "classify"
    /\ api.response.status = 500
    /\ Len(api.seen) = 1
    /\ Len(api.served) = 0
    /\ Len(db) = 1
    /\ db[1].original_email # db[1].masked_email
    /\ db[1].category = None


\* ------------------------------------------- invocations that share one masker
\* the number of invocations of mask_text
MaxCalls == 3

\* the texts the invocations are given
SharedTexts ==
    {<<"j", "@", "x", ".", "i", "o">>,
     <<"h", "i", " ", "B", "o", "b">>}

\* what a recognizer that finds the names returns for a text
SharedDocs(t) ==
    IF NameDocs(t) = {<< >>} THEN {<< >>} ELSE NameDocs(t) \ {<< >>}

\* the working lists of invocation 1, whichever invocation asks
locals_of_first(cs, i) == cs[1].locals

\* the locals of invocation i: entities and the cursor of the pattern loop
\* are created by the invocation itself
locals(cs, i) == cs[i].locals

\* self.patterns after a detection that pops the pattern it started with
patterns_consumed(pats) == Tail(pats)

\* self.patterns after detect_regex_entities: it is read and never assigned
patterns_kept(pats) == pats

\* invocation i takes a step
Step(i, next_pc, next_locals, next_result) ==
    calls' = [calls EXCEPT ![i] = [text |-> @.text, doc |-> @.doc, pc |-> next_pc,
                                   locals |-> next_locals, result |-> next_result]]

\* mask_text(text) is called while other invocations may be under way
SharedStart ==
    /\ Len(calls) < MaxCalls
    /\ \E t \in SharedTexts : \E ents \in SharedDocs(t) :
          calls' = Append(calls,
                      [text |-> t, doc |-> ents, pc |-> "regex",
                       locals |-> [pidx |-> 1, entities |-> << >>, candidates |-> << >>],
                       result |-> NoResult])
    /\ UNCHANGED <<text, pc, pidx, scanpos, nmatch, entities, order, k, resolved_entities,
                   entity_info, new_text_parts, current_pos, m, result>>
    /\ UNCHANGED <<self_patterns, db, api, match, verdict>>

\* detect_regex_entities: one pattern of self.patterns
SharedPattern ==
    /\ \E i \in 1..Len(calls) :
          LET l == locals(calls, i)
          IN  /\ calls[i].pc = "regex"
              /\ l.pidx <= Len(self_patterns)
              /\ Step(i, "regex",
                      [pidx |-> l.pidx + 1,
                       entities |-> add_matches(calls[i].text, l.entities,
                                        finditer(self_patterns[l.pidx], calls[i].text),
                                        self_patterns[l.pidx]),
                       candidates |-> l.candidates],
                      calls[i].result)
    /\ UNCHANGED <<text, pc, pidx, scanpos, nmatch, entities, order, k, resolved_entities,
                   entity_info, new_text_parts, current_pos, m, result>>
    /\ UNCHANGED <<self_patterns, db, api, match, verdict>>

\* detect_regex_entities returns its candidates; detect_all_entities adds
\* the names, sorts and calls _resolve_overlaps
SharedResolve ==
    /\ \E i \in 1..Len(calls) :
          LET l == locals(calls, i)
          IN  /\ calls[i].pc = "regex"
              /\ l.pidx > Len(self_patterns)
              /\ Step(i, "mask",
                      [pidx |-> l.pidx,
                       entities |-> resolve_overlaps(
                                        SortByStart(l.entities \o name_entities(calls[i].doc))),
                       candidates |-> l.entities],
                      calls[i].result)
    /\ self_patterns' = patterns_kept(self_patterns)
    /\ UNCHANGED <<text, pc, pidx, scanpos, nmatch, entities, order, k, resolved_entities,
                   entity_info, new_text_parts, current_pos, m, result>>
    /\ UNCHANGED <<db, api, match, verdict>>

\* mask_text: the descriptors, the walk and the return
SharedMask ==
    /\ \E i \in 1..Len(calls) :
          LET l == locals(calls, i)
          IN  /\ calls[i].pc = "mask"
              /\ Step(i, "done", l,
                      [returned |-> TRUE,
                       masked_text |-> Walk(calls[i].text, MaskOrder(l.entities), 1, 0, << >>),
                       entity_info |-> [j \in 1..Len(l.entities) |-> to_dict(l.entities[j])]])
    /\ UNCHANGED <<text, pc, pidx, scanpos, nmatch, entities, order, k, resolved_entities,
                   entity_info, new_text_parts, current_pos, m, result>>
    /\ UNCHANGED <<self_patterns, db, api, match, verdict>>

\* one masker has been constructed and no invocation made
InitShared ==
    /\ text = << >>
    /\ pc = "shared"
    /\ entities = << >>
    /\ InitLocals
    /\ InitExt

NextShared ==
    \/ SharedStart
    \/ SharedPattern
    \/ SharedResolve
    \/ SharedMask

SpecShared == InitShared /\ [][NextShared]_vars

\* -------------------------------------------- properties of shared invocations
Done(i) == calls[i].pc = "done"

SameInput(i, j) == calls[i].text = calls[j].text /\ calls[i].doc = calls[j].doc

\* C11: two invocations given the same text and the same recognizer output
\* have found the same candidates and returned the same masked text and the
\* same descriptors in the same order, whatever was invoked before, between
\* or during them.
C11_NoHiddenState ==
    \A i, j \in 1..Len(calls) :
        Done(i) /\ Done(j) /\ SameInput(i, j) =>
            /\ calls[i].locals.candidates = calls[j].locals.candidates
            /\ calls[i].result.masked_text = calls[j].result.masked_text
            /\ calls[i].result.entity_info = calls[j].result.entity_info

\* a text with an address was masked again after another text
C11_Witness ==
    /\ Len(calls) = 3
    /\ \A i \in 1..3 : Done(i)
    /\ SameInput(1, 3)
    /\ calls[2].text # calls[1].text
    /\ calls[1].locals.candidates # << >>
    /\ calls[3].result.entity_info # << >>

\* C12: under every interleaving self.patterns stays what
\* _initialize_patterns made it, a step changes the record of one
\* invocation only, and an invocation returns what mask_text returns for
\* its text and recognizer output when nothing else runs.
C12_NoCoordination ==
    [][/\ self_patterns' = self_patterns
       /\ Cardinality({i \in 1..Len(calls) : calls'[i] # calls[i]}) <= 1
       /\ \A i \in 1..Len(calls) :
             /\ Done(i) => calls'[i] = calls[i]
             /\ ~Done(i) /\ calls'[i].pc = "done" =>
                   /\ calls'[i].result.masked_text =
                          mask_text(calls[i].text, calls[i].doc).masked_text
                   /\ calls'[i].result.entity_info =
                          mask_text(calls[i].text, calls[i].doc).entity_info]_vars

\* the second invocation ran from start to return while the first, on
\* another text, was under way
C12_Witness ==
    /\ Len(calls) >= 2
    /\ calls[1].text # calls[2].text
    /\ calls[1].pc = "mask"
    /\ calls[1].locals.entities # << >>
    /\ Done(2)
    /\ calls[2].result.entity_info # << >>


\* ------------------------------------------------ the break and the final pass
\* the final pass is taken
PruneTaken == pc = "fold" /\ k > Len(order) /\ pc' = "mask"

\* C21: for well-formed candidates taken in the order (start ascending,
\* length descending), the candidate of a fold step overlaps no accepted
\* entity but the last one of the accumulator; a fold step keeps every
\* accepted entity the candidate does not overlap, in the order it had; and
\* the final pass returns the accumulator of the fold as it is.
C21_BreakLosesNothing ==
    /\ [](pc = "fold" /\ k <= Len(order) =>
             \A i \in 1..Len(resolved_entities) :
                 SpanOverlap(order[k], resolved_entities[i]) > 0 =>
                     i = Len(resolved_entities))
    /\ [][FoldTaken =>
             \A i \in 1..Len(resolved_entities) :
                 SpanOverlap(order[k], resolved_entities[i]) = 0 =>
                     /\ i <= Len(resolved_entities')
                     /\ resolved_entities'[i] = resolved_entities[i]]_vars
    /\ [][PruneTaken => entities' = resolved_entities]_vars

\* two entities were accepted, the third candidate overlapped the last of
\* them and was beaten by it at the break, and the final pass has run
C21_Witness ==
    /\ pc = "mask"
    /\ Len(order) = 3
    /\ Len(FoldPrefix(order, 2)) = 2
    /\ SpanOverlap(order[3], FoldPrefix(order, 2)[2]) > 0
    /\ Decide(order[3], FoldPrefix(order, 2)[2]) = "keep"
    /\ Len(entities) = 2

====
